---- MODULE Spec2Model ----
(***************************************************************************)
(* A state-machine model of the Snake game of                              *)
(* src/src/components/SnakeGame.tsx.                                       *)
(*                                                                         *)
(* The component's React state (snake, food, direction, gameStatus, score, *)
(* speed) and its two refs (directionRef, gameStatusRef) are the           *)
(* variables.  One action stands for one callback of the component: the    *)
(* interval callback moveSnake, the keydown listener, the touch buttons    *)
(* and the two overlay buttons.  Every action includes the re-render the   *)
(* callback causes and the effects that run after it: the effect of lines  *)
(* 184-186 calls generateFood(snake) whenever the snake array changed, the *)
(* effects of lines 189-195 copy direction and gameStatus into the refs,   *)
(* and the game-loop effect of lines 116-181 keeps an interval only while  *)
(* gameStatus is PLAYING.  React is taken to run a state updater once per  *)
(* update (a production build).                                            *)
(***************************************************************************)
EXTENDS Integers, Sequences, FiniteSets, TLC

\* ------------------------------------------------------------ constants
BOARD_SIZE == 20
INITIAL_SPEED == 150
MIN_SPEED == 50
SPEED_INCREMENT == 5
SCORE_INCREMENT == 10

Pos(px, py) == [x |-> px, y |-> py]

INITIAL_SNAKE == << Pos(10, 10), Pos(10, 11), Pos(10, 12) >>

Directions == {"UP", "DOWN", "LEFT", "RIGHT"}
Statuses == {"IDLE", "PLAYING", "GAME_OVER"}

\* ------------------------------------------------------------ bounds
\* Ticks explored per game session (11 ticks take the initial snake into
\* the top wall).
MaxTicks == 11
\* Changes of direction explored per game session.
MaxTurns == 3

\* The outcomes of Math.floor(Math.random() * BOARD_SIZE) the model
\* enumerates, per coordinate: a sample of 0 .. BOARD_SIZE - 1.
RandXs == {0, 10}
RandYs == {0, 9}
RandCells == {Pos(px, py) : px \in RandXs, py \in RandYs}

\* The keys the model presses: every key the listener names, and one it
\* does not.
Keys == {"ArrowUp", "w", "W", "ArrowDown", "s", "S", "ArrowLeft", "a", "A",
         "ArrowRight", "d", "D", " ", "Spacebar", "x"}

VARIABLES
    snake,          \* Position[], head first
    food,           \* Position
    direction,      \* Direction
    gameStatus,     \* GameStatus
    score,
    speed,          \* the interval of the game loop, in ms
    directionRef,   \* directionRef.current
    gameStatusRef,  \* gameStatusRef.current
    event,          \* the callback that ran last (op), its argument (arg: the
                    \* direction asked for, or the status initGame was called
                    \* in) and what it did (did)
    ticks,          \* ticks of this session (bounded by MaxTicks)
    turns           \* changes of direction of this session (bounded by MaxTurns)

game == << snake, food, direction, gameStatus, score, speed,
           directionRef, gameStatusRef >>
vars == << snake, food, direction, gameStatus, score, speed,
           directionRef, gameStatusRef, event, ticks, turns >>

Max(a, b) == IF a >= b THEN a ELSE b

\* ------------------------------------------------------------ generateFood
isPositionOccupied(snakeBody, pos) ==
    \E i \in 1..Len(snakeBody) :
        snakeBody[i].x = pos.x /\ snakeBody[i].y = pos.y

\* generateFood without the loop's test: the first cell drawn is kept.
generateFoodAnywhere(snakeBody) == RandCells

\* The cells the do-while loop of generateFood can end with: a drawn cell
\* that is not on snakeBody.  The empty set when every drawn cell is
\* occupied: the loop does not end.
generateFood(snakeBody) ==
    {c \in RandCells : ~isPositionOccupied(snakeBody, c)}

\* The effect of lines 184-186: after a render in which the snake array
\* changed, generateFood(snake) is called again and its cell replaces the
\* one set during the callback.
SnakeEffect(oldSnake, newSnake, set) ==
    IF newSnake = oldSnake THEN set ELSE generateFood(newSnake)

\* initGame without setScore(0).
initGameKeepScore ==
    /\ snake' = INITIAL_SNAKE
    /\ direction' = "UP"
    /\ directionRef' = "UP"
    /\ score' = score
    /\ speed' = INITIAL_SPEED
    /\ \E f \in generateFood(INITIAL_SNAKE) :
          food' \in SnakeEffect(snake, INITIAL_SNAKE, {f})
    /\ gameStatus' = "PLAYING"
    /\ gameStatusRef' = "PLAYING"
    /\ event' = [op |-> "init", arg |-> gameStatus, did |-> "reset"]
    /\ ticks' = 0
    /\ turns' = 0

\* ------------------------------------------------------------ initGame
initGame ==
    /\ snake' = INITIAL_SNAKE
    /\ direction' = "UP"
    /\ directionRef' = "UP"
    /\ score' = 0
    /\ speed' = INITIAL_SPEED
    /\ \E f \in generateFood(INITIAL_SNAKE) :
          food' \in SnakeEffect(snake, INITIAL_SNAKE, {f})
    /\ gameStatus' = "PLAYING"
    /\ gameStatusRef' = "PLAYING"
    /\ event' = [op |-> "init", arg |-> gameStatus, did |-> "reset"]
    /\ ticks' = 0
    /\ turns' = 0

\* The Start Game and Play Again buttons: rendered while gameStatus is
\* IDLE, respectively GAME_OVER, both with onClick = initGame.
ClickPlay ==
    /\ gameStatus \in {"IDLE", "GAME_OVER"}
    /\ initGame

\* ------------------------------------------------------------ direction input
\* The direction a case of the switch refuses to leave.
Reverse(dir) ==
    CASE dir = "UP" -> "DOWN"
      [] dir = "DOWN" -> "UP"
      [] dir = "LEFT" -> "RIGHT"
      [] dir = "RIGHT" -> "LEFT"

\* A case of the switch without its test of directionRef.current.
AcceptsAny(dir) == TRUE

\* One case of the switch of handleKeyDown and of handleSwipe.
Accepts(dir) == directionRef # Reverse(dir)

\* A case of the switch whose setDirection also re-runs the food effect
\* (direction in the dependency list of the effect of lines 184-186).
SteerRedrawsFood(op, dir) ==
    IF Accepts(dir)
    THEN /\ (directionRef # dir) => turns < MaxTurns
         /\ direction' = dir
         /\ directionRef' = dir
         /\ turns' = IF directionRef # dir THEN turns + 1 ELSE turns
         /\ event' = [op |-> op, arg |-> dir, did |-> "accepted"]
         /\ food' \in IF directionRef # dir THEN generateFood(snake) ELSE {food}
         /\ UNCHANGED << snake, gameStatus, score, speed, gameStatusRef, ticks >>
    ELSE /\ event' = [op |-> op, arg |-> dir, did |-> "rejected"]
         /\ UNCHANGED << game, ticks, turns >>

Steer(op, dir) ==
    IF Accepts(dir)
    THEN /\ (directionRef # dir) => turns < MaxTurns
         /\ direction' = dir
         /\ directionRef' = dir
         /\ turns' = IF directionRef # dir THEN turns + 1 ELSE turns
         /\ event' = [op |-> op, arg |-> dir, did |-> "accepted"]
         /\ UNCHANGED << snake, food, gameStatus, score, speed,
                         gameStatusRef, ticks >>
    ELSE /\ event' = [op |-> op, arg |-> dir, did |-> "rejected"]
         /\ UNCHANGED << game, ticks, turns >>

Ignore(op, dir) ==
    /\ event' = [op |-> op, arg |-> dir, did |-> "ignored"]
    /\ UNCHANGED << game, ticks, turns >>

\* The direction a key stands for, "NONE" for a key of no case.
KeyDirection(key) ==
    CASE key \in {"ArrowUp", "w", "W"} -> "UP"
      [] key \in {"ArrowDown", "s", "S"} -> "DOWN"
      [] key \in {"ArrowLeft", "a", "A"} -> "LEFT"
      [] key \in {"ArrowRight", "d", "D"} -> "RIGHT"
      [] OTHER -> "NONE"

handleKeyDown(key) ==
    IF gameStatusRef = "GAME_OVER" /\ key \in {" ", "Spacebar"}
    THEN initGame
    ELSE IF gameStatusRef # "PLAYING"
    THEN Ignore("key", KeyDirection(key))
    ELSE IF KeyDirection(key) = "NONE"
    THEN Ignore("key", "NONE")
    ELSE Steer("key", KeyDirection(key))

KeyDown == \E key \in Keys : handleKeyDown(key)

\* handleSwipe without its test of gameStatusRef.current.
handleSwipeUnguarded(dir) == Steer("swipe", dir)

handleSwipe(dir) ==
    IF gameStatusRef # "PLAYING"
    THEN Ignore("swipe", dir)
    ELSE Steer("swipe", dir)

Swipe == \E dir \in Directions : handleSwipe(dir)

\* ------------------------------------------------------------ moveSnake
\* The switch of moveSnake with the y axis upside down.
MoveHeadFlipped(head, dir) ==
    CASE dir = "UP" -> Pos(head.x, head.y + 1)
      [] dir = "DOWN" -> Pos(head.x, head.y - 1)
      [] dir = "LEFT" -> Pos(head.x - 1, head.y)
      [] dir = "RIGHT" -> Pos(head.x + 1, head.y)

MoveHead(head, dir) ==
    CASE dir = "UP" -> Pos(head.x, head.y - 1)
      [] dir = "DOWN" -> Pos(head.x, head.y + 1)
      [] dir = "LEFT" -> Pos(head.x - 1, head.y)
      [] dir = "RIGHT" -> Pos(head.x + 1, head.y)

\* The wall test without head.x < 0.
HitsWallNoLeft(head) ==
    \/ head.x >= BOARD_SIZE
    \/ head.y < 0
    \/ head.y >= BOARD_SIZE

HitsWall(head) ==
    \/ head.x < 0
    \/ head.x >= BOARD_SIZE
    \/ head.y < 0
    \/ head.y >= BOARD_SIZE

\* moveSnake without its test for a collision with the snake.
HitsSelfNever(prevSnake, head) == FALSE

\* The self-collision test over the snake less its last cell.
HitsSelfButTail(prevSnake, head) ==
    \E i \in 1..(Len(prevSnake) - 1) :
        prevSnake[i].x = head.x /\ prevSnake[i].y = head.y

HitsSelf(prevSnake, head) ==
    \E i \in 1..Len(prevSnake) :
        prevSnake[i].x = head.x /\ prevSnake[i].y = head.y

AteFood(head, f) == head.x = f.x /\ head.y = f.y

Grown(head, prevSnake) == << head >> \o prevSnake

\* The else branch without newSnake.pop().
MovedNoPop(head, prevSnake) == Grown(head, prevSnake)

Moved(head, prevSnake) ==
    SubSeq(Grown(head, prevSnake), 1, Len(prevSnake))

\* The score update adding 1 for a cell eaten.
NextScoreOne(prev) == prev + 1

NextScore(prev) == prev + SCORE_INCREMENT

\* The speed update without Math.max(MIN_SPEED, ...).
NextSpeedNoFloor(prev) == prev - SPEED_INCREMENT

NextSpeed(prev) == Max(MIN_SPEED, prev - SPEED_INCREMENT)

\* The game-loop effect without its early return of line 117.
TimerRunsAlways == TRUE

\* The game-loop effect sets the interval only while gameStatus is PLAYING
\* and clears it when gameStatus, food or speed change.
TimerRuns == gameStatus = "PLAYING"

\* A collision branch that sets the status IDLE.
GameOverIdle(why) ==
    /\ gameStatus' = "IDLE"
    /\ gameStatusRef' = "IDLE"
    /\ event' = [op |-> "tick", arg |-> "NONE", did |-> why]
    /\ UNCHANGED << snake, food, direction, score, speed, directionRef >>

\* A collision branch that returns prevSnake without setGameStatus.
GameOverNotSet(why) ==
    /\ event' = [op |-> "tick", arg |-> "NONE", did |-> why]
    /\ UNCHANGED << game >>

GameOver(why) ==
    /\ gameStatus' = "GAME_OVER"
    /\ gameStatusRef' = "GAME_OVER"
    /\ event' = [op |-> "tick", arg |-> "NONE", did |-> why]
    /\ UNCHANGED << snake, food, direction, score, speed, directionRef >>

Eat(head) ==
    /\ snake' = Grown(head, snake)
    /\ score' = NextScore(score)
    /\ speed' = NextSpeed(speed)
    /\ \E f \in generateFood(Grown(head, snake)) :
          food' \in SnakeEffect(snake, Grown(head, snake), {f})
    /\ event' = [op |-> "tick", arg |-> "NONE", did |-> "eat"]
    /\ UNCHANGED << direction, gameStatus, directionRef, gameStatusRef >>

Step(head) ==
    /\ snake' = Moved(head, snake)
    /\ food' \in SnakeEffect(snake, Moved(head, snake), {food})
    /\ event' = [op |-> "tick", arg |-> "NONE", did |-> "move"]
    /\ UNCHANGED << direction, gameStatus, score, speed,
                    directionRef, gameStatusRef >>

moveSnake ==
    LET head == MoveHead(snake[1], directionRef) IN
    IF HitsWall(head) THEN GameOver("wall")
    ELSE IF HitsSelf(snake, head) THEN GameOver("self")
    ELSE IF AteFood(head, food) THEN Eat(head)
    ELSE Step(head)

Tick ==
    /\ TimerRuns
    /\ ticks < MaxTicks
    /\ ticks' = ticks + 1
    /\ UNCHANGED turns
    /\ moveSnake

\* ------------------------------------------------------------ specification
\* The component once mounted: the useState values of lines 26-31, and the
\* food cell the first run of the effect of lines 184-186 has drawn.
Init ==
    /\ snake = INITIAL_SNAKE
    /\ food \in generateFood(INITIAL_SNAKE)
    /\ direction = "UP"
    /\ gameStatus = "IDLE"
    /\ score = 0
    /\ speed = INITIAL_SPEED
    /\ directionRef = "UP"
    /\ gameStatusRef = "IDLE"
    /\ event = [op |-> "mount", arg |-> "NONE", did |-> "mount"]
    /\ ticks = 0
    /\ turns = 0

Next ==
    \/ ClickPlay
    \/ KeyDown
    \/ Swipe
    \/ Tick

Spec == Init /\ [][Next]_vars

\* ------------------------------------------------------------ a running timer
\* Changes of direction explored per session when ticks are not counted.
MaxLiveTurns == 1

\* The interval callback with no bound on the ticks of a session.
TickLive ==
    /\ TimerRuns
    /\ UNCHANGED << ticks, turns >>
    /\ moveSnake

NextLive ==
    \/ ClickPlay
    \/ KeyDown /\ turns' <= MaxLiveTurns
    \/ Swipe /\ turns' <= MaxLiveTurns
    \/ TickLive

\* setInterval(moveSnake, speed) keeps calling moveSnake while gameStatus is
\* PLAYING: the effect sets a new interval each time it clears one.
SpecLive == Init /\ [][NextLive]_vars /\ WF_vars(TickLive)

\* ------------------------------------------------------------ a late game
\* A state of a long session: from the start the snake went up column 10
\* and then left along row 0, and every cell it entered held the food.
\* That is 19 cells eaten: score 190, speed 150 - 19 * 5, length 3 + 19.
LATE_SNAKE ==
    [i \in 1..22 |-> IF i <= 9 THEN Pos(i, 0) ELSE Pos(10, i - 10)]

InitLate ==
    /\ snake = LATE_SNAKE
    /\ food \in generateFood(LATE_SNAKE)
    /\ direction = "LEFT"
    /\ gameStatus = "PLAYING"
    /\ score = 190
    /\ speed = 55
    /\ directionRef = "LEFT"
    /\ gameStatusRef = "PLAYING"
    /\ event = [op |-> "tick", arg |-> "NONE", did |-> "eat"]
    /\ ticks = 0
    /\ turns = 0

SpecLate == InitLate /\ [][Next]_vars

\* ------------------------------------------------------------ a full board
\* The k-th cell (k in 0 .. 399) of a closed tour of the board: along row 0
\* from (0,0) to (19,0), then rows 1 to 19 back and forth between columns
\* 19 and 1, then up column 0 from (0,19) to (0,1), next to (0,0) again.
\* A snake that follows the tour never meets a wall or itself.
TourCell(k) ==
    IF k < BOARD_SIZE THEN Pos(k, 0)
    ELSE IF k < BOARD_SIZE * BOARD_SIZE - (BOARD_SIZE - 1)
    THEN LET r == 1 + ((k - BOARD_SIZE) \div (BOARD_SIZE - 1))
             j == (k - BOARD_SIZE) % (BOARD_SIZE - 1)
         IN  IF r % 2 = 1 THEN Pos(BOARD_SIZE - 1 - j, r) ELSE Pos(1 + j, r)
    ELSE Pos(0, BOARD_SIZE * BOARD_SIZE - k)

\* A state near the end of a perfect session: the snake has followed the
\* tour and eaten 395 cells, so it covers the tour but for (0,1) and (0,0),
\* its head at (0,2) going UP; the food is on either free cell.
TOUR_SNAKE ==
    [i \in 1..(BOARD_SIZE * BOARD_SIZE - 2) |->
        TourCell(BOARD_SIZE * BOARD_SIZE - 1 - i)]

InitFull ==
    /\ snake = TOUR_SNAKE
    /\ food \in {c \in {Pos(px, py) : px, py \in 0..(BOARD_SIZE - 1)} :
                    ~isPositionOccupied(TOUR_SNAKE, c)}
    /\ direction = "UP"
    /\ gameStatus = "PLAYING"
    /\ score = 3950
    /\ speed = MIN_SPEED
    /\ directionRef = "UP"
    /\ gameStatusRef = "PLAYING"
    /\ event = [op |-> "tick", arg |-> "NONE", did |-> "eat"]
    /\ ticks = 0
    /\ turns = 0

SpecFull == InitFull /\ [][Next]_vars

\* ------------------------------------------------------------ properties
\* The cell one unit from pos in direction dir.
Ahead(pos, dir) ==
    CASE dir = "UP" -> [x |-> pos.x, y |-> pos.y - 1]
      [] dir = "DOWN" -> [x |-> pos.x, y |-> pos.y + 1]
      [] dir = "LEFT" -> [x |-> pos.x - 1, y |-> pos.y]
      [] dir = "RIGHT" -> [x |-> pos.x + 1, y |-> pos.y]

OnBoard(pos) ==
    /\ 0 <= pos.x /\ pos.x < 20
    /\ 0 <= pos.y /\ pos.y < 20

OnSnake(s, pos) == \E i \in DOMAIN s : s[i] = pos

ReversePairs ==
    { << "UP", "DOWN" >>, << "DOWN", "UP" >>,
      << "LEFT", "RIGHT" >>, << "RIGHT", "LEFT" >> }

IsTick == event'.op = "tick"
IsReset == event'.op = "init"
IsDirectionInput == event'.op \in {"key", "swipe"} /\ event'.arg \in Directions

\* C1: in every reachable state the food cell is not a cell of the snake.
C1_FoodOffSnake == ~OnSnake(snake, food)

\* C1 witness: a tick has eaten, the snake has grown over the old food cell
\* and the food drawn anew is off the snake.
C1_Witness ==
    /\ event.did = "eat"
    /\ Len(snake) = 4
    /\ ~OnSnake(snake, food)

\* C2: a tick leaves the snake's length as it was or adds one, and adds one
\* exactly when the new head is the food cell; no step but a reset makes
\* the snake shorter.
C2_LengthLaw ==
    [][ /\ IsTick =>
            /\ Len(snake') \in {Len(snake), Len(snake) + 1}
            /\ (Len(snake') = Len(snake) + 1) <=>
                   (Ahead(snake[1], direction) = food)
        /\ ~IsReset => Len(snake') >= Len(snake) ]_vars

\* C2 witness: a tick that did not eat follows one that did: the snake has
\* moved and kept the length it had grown to.
C2_Witness ==
    /\ event.did = "move"
    /\ Len(snake) = 4
    /\ gameStatus = "PLAYING"

\* C3: while PLAYING, a direction input that is the reverse of the current
\* direction changes nothing, and the tick that follows it moves the head
\* by the unchanged direction; any other direction input becomes the
\* current direction.
C3_ReverseIsNoOp ==
    [][ /\ (IsDirectionInput /\ gameStatus = "PLAYING") =>
            IF << direction, event'.arg >> \in ReversePairs
            THEN UNCHANGED game
            ELSE direction' = event'.arg /\ directionRef' = event'.arg
        /\ (IsTick /\ event.did = "rejected" /\ snake' # snake) =>
            /\ snake'[1] = Ahead(snake[1], direction)
            /\ snake'[1] # Ahead(snake[1], event.arg) ]_vars

\* C3 witness: a reverse input has been refused while PLAYING.
C3_Witness ==
    /\ gameStatus = "PLAYING"
    /\ event.op \in {"key", "swipe"}
    /\ event.did = "rejected"
    /\ << direction, event.arg >> \in ReversePairs

\* C4: from a GAME_OVER state, and from an IDLE state, every step that is
\* not a reset leaves snake, food, score, speed and status as they are.
C4_FrozenUntilReset ==
    [][ (gameStatus \in {"GAME_OVER", "IDLE"} /\ ~IsReset) =>
            UNCHANGED << snake, food, score, speed, gameStatus >> ]_vars

\* C4 witness: an input has arrived after the game ended, with the score
\* the game ended with.
C4_Witness ==
    /\ gameStatus = "GAME_OVER"
    /\ event.did = "ignored"
    /\ score > 0

\* C5: a tick whose new head is the food cell (on the board, off the snake)
\* adds 10 to the score, sets speed to max(50, speed - 5), puts the new
\* head before the whole prior snake and leaves the food off the new snake.
C5_EatingTick ==
    [][ ( /\ IsTick
          /\ gameStatus = "PLAYING"
          /\ Ahead(snake[1], direction) = food
          /\ OnBoard(food)
          /\ ~OnSnake(snake, food) ) =>
            /\ score' = score + 10
            /\ speed' = (IF speed - 5 > 50 THEN speed - 5 ELSE 50)
            /\ snake' = << Ahead(snake[1], direction) >> \o snake
            /\ ~OnSnake(snake', food') ]_vars

\* C5 witness: a tick has eaten at the floor of the speed: the score says
\* 21 cells were eaten, one more than takes the speed from 150 to 50.
C5_Witness ==
    /\ event.did = "eat"
    /\ score = 210
    /\ speed = 50

\* C6: a tick whose new head is off the board ends the game and leaves
\* snake, food, score, speed and direction as they are.
C6_WallCollision ==
    [][ ( /\ IsTick
          /\ gameStatus = "PLAYING"
          /\ ~OnBoard(Ahead(snake[1], direction)) ) =>
            /\ gameStatus' = "GAME_OVER"
            /\ UNCHANGED << snake, food, score, speed, direction >> ]_vars

\* C6 witness: the game has ended on the left wall, the head in column 0.
C6_Witness ==
    /\ event.did = "wall"
    /\ gameStatus = "GAME_OVER"
    /\ snake[1].x = 0
    /\ direction = "LEFT"

\* C7: a reset yields the snake (10,10),(10,11),(10,12), direction UP,
\* score 0, speed 150, a food cell off that snake and status PLAYING.
C7_Reset ==
    [][ IsReset =>
            /\ snake' = << [x |-> 10, y |-> 10], [x |-> 10, y |-> 11],
                           [x |-> 10, y |-> 12] >>
            /\ direction' = "UP"
            /\ score' = 0
            /\ speed' = 150
            /\ ~OnSnake(snake', food')
            /\ gameStatus' = "PLAYING" ]_vars

\* C7 witness: a reset called after a game had ended.
C7_Witness ==
    /\ event.op = "init"
    /\ event.arg = "GAME_OVER"
    /\ score = 0
    /\ Len(snake) = 3
    /\ snake[1] = [x |-> 10, y |-> 10]

\* C8: the status starts IDLE, and it changes only from IDLE to PLAYING by
\* a reset, from PLAYING to GAME_OVER by a tick that hits a wall or the
\* snake, and from GAME_OVER to PLAYING by a reset; a direction input
\* never changes it.
C8_StatusMachine ==
    /\ gameStatus = "IDLE"
    /\ [][ /\ gameStatus' # gameStatus =>
               \/ /\ gameStatus = "IDLE" /\ gameStatus' = "PLAYING"
                  /\ IsReset
               \/ /\ gameStatus = "PLAYING" /\ gameStatus' = "GAME_OVER"
                  /\ IsTick /\ event'.did \in {"wall", "self"}
               \/ /\ gameStatus = "GAME_OVER" /\ gameStatus' = "PLAYING"
                  /\ IsReset
           /\ event'.op \in {"key", "swipe"} => gameStatus' = gameStatus
         ]_vars

\* C8 witness: a game has been restarted: the status has gone IDLE,
\* PLAYING, GAME_OVER, PLAYING.
C8_Witness ==
    /\ gameStatus = "PLAYING"
    /\ event = [op |-> "init", arg |-> "GAME_OVER", did |-> "reset"]
    /\ ticks = 0

\* C9: a tick whose new head is on the board, off the snake and not the
\* food cell puts the head one unit further in the current direction,
\* follows it with the prior snake less its last cell, and leaves score,
\* speed and status as they are.
C9_PlainMove ==
    [][ ( /\ IsTick
          /\ gameStatus = "PLAYING"
          /\ OnBoard(Ahead(snake[1], direction))
          /\ ~OnSnake(snake, Ahead(snake[1], direction))
          /\ Ahead(snake[1], direction) # food ) =>
            /\ snake'[1] = Ahead(snake[1], direction)
            /\ Len(snake') = Len(snake)
            /\ \A i \in 2..Len(snake') : snake'[i] = snake[i - 1]
            /\ UNCHANGED << score, speed, gameStatus >> ]_vars

\* C9 witness: the head was at (10,9) going UP with nothing in the way, and
\* is now at (10,8), the tail cell (10,11) given up, the score unchanged.
C9_Witness ==
    /\ event.did = "move"
    /\ snake = << [x |-> 10, y |-> 8], [x |-> 10, y |-> 9],
                  [x |-> 10, y |-> 10] >>
    /\ score = 0

\* C10: a direction input while the status is not PLAYING changes nothing.
C10_InputIgnoredUnlessPlaying ==
    [][ (IsDirectionInput /\ gameStatus # "PLAYING") =>
            /\ UNCHANGED game
            /\ gameStatus' \in {"IDLE", "GAME_OVER"} ]_vars

\* C10 witness: a swipe arrived before the first game was started.
C10_Witness ==
    /\ gameStatus = "IDLE"
    /\ event = [op |-> "swipe", arg |-> "LEFT", did |-> "ignored"]
    /\ direction = "UP"

\* C11: in every reachable state the snake has at least one cell, no cell
\* twice, every cell on the board, and consecutive cells one unit apart in
\* exactly one coordinate.
C11_SnakeWellFormed ==
    /\ Len(snake) >= 1
    /\ \A i, j \in 1..Len(snake) : i # j => snake[i] # snake[j]
    /\ \A i \in 1..Len(snake) :
           /\ 0 <= snake[i].x /\ snake[i].x < 20
           /\ 0 <= snake[i].y /\ snake[i].y < 20
    /\ \A i \in 1..(Len(snake) - 1) :
           \/ /\ snake[i].x = snake[i + 1].x
              /\ snake[i].y - snake[i + 1].y \in {-1, 1}
           \/ /\ snake[i].y = snake[i + 1].y
              /\ snake[i].x - snake[i + 1].x \in {-1, 1}

\* C11 witness: a snake of four cells that has turned twice and has its
\* head beside its own body.
C11_Witness ==
    /\ Len(snake) = 4
    /\ event.did = "move"
    /\ snake[1].x # snake[2].x
    /\ snake[3].x # snake[4].x
    /\ snake[1].x = snake[4].x

\* C12: in every reachable state the score is a non-negative multiple of
\* 10 and the speed lies in 50 .. 150; no step but a reset lowers the score
\* or raises the speed.
C12_ScoreAndSpeedRange ==
    /\ [](/\ score >= 0
          /\ score % 10 = 0
          /\ 50 <= speed /\ speed <= 150)
    /\ [][ ~IsReset => (score' >= score /\ speed' <= speed) ]_vars

\* C12 witness: the speed has stayed at 50 over a tick that ate.
C12_Witness ==
    /\ speed = 50
    /\ score > 200
    /\ gameStatus = "PLAYING"

\* The direction the last move of the snake went: from its second cell to
\* its head.
Heading ==
    CHOOSE d \in {"UP", "DOWN", "LEFT", "RIGHT"} :
        snake[1] = Ahead(snake[2], d)

\* C13: the direction a tick applies is never the reverse of the direction
\* the tick before it in the session applied, whatever direction inputs
\* came in between; so the head never runs straight back into the neck.
C13_NoReversalBetweenTicks ==
    [][ (IsTick /\ ticks >= 1) =>
            /\ << Heading, directionRef >> \notin ReversePairs
            /\ Ahead(snake[1], directionRef) # snake[2] ]_vars

\* C14: the food cell changes only on a tick that eats it and on a reset:
\* a tick whose new head is not the food cell, and any direction input,
\* leave it where it is.
C14_FoodMovesOnlyWhenEaten ==
    [][ ( \/ IsTick /\ Ahead(snake[1], direction) # food
          \/ event'.op \in {"key", "swipe"} ) =>
            food' = food ]_vars

BoardCells == {[x |-> px, y |-> py] : px \in 0..19, py \in 0..19}

\* C15: every food relocation ends with a cell: whenever generateFood is
\* called, on the snake of the state (the snake-change effect) or on the
\* snake a tick has just grown by the food cell, a board cell is off the
\* snake it is given.
C15_RelocationTerminates ==
    /\ \E c \in BoardCells : ~OnSnake(snake, c)
    /\ (gameStatus = "PLAYING" /\ Ahead(snake[1], direction) = food) =>
           \E c \in BoardCells : ~OnSnake(<< food >> \o snake, c)

\* C16: a tick whose new head is a cell of the snake before the move, the
\* tail cell included, ends the game and leaves the snake as it is.
C16_TailCollision ==
    [][ ( /\ IsTick
          /\ gameStatus = "PLAYING"
          /\ \E i \in 1..Len(snake) :
                 snake[i] = Ahead(snake[1], direction) ) =>
            /\ gameStatus' = "GAME_OVER"
            /\ snake' = snake ]_vars

\* C16 witness: the game has ended on a tick whose new head was the tail
\* cell of a snake of four cells.
C16_Witness ==
    /\ event.did = "self"
    /\ gameStatus = "GAME_OVER"
    /\ Len(snake) = 4
    /\ Ahead(snake[1], direction) = snake[4]

\* C17: a direction input, accepted, rejected or ignored, leaves snake,
\* food, score, speed and status as they are.
C17_InputOnlySetsDirection ==
    [][ event'.op \in {"key", "swipe"} =>
            UNCHANGED << snake, food, score, speed, gameStatus >> ]_vars

\* C17 witness: an input has turned a moving snake to the LEFT.
C17_Witness ==
    /\ event.did = "accepted"
    /\ event.arg = "LEFT"
    /\ direction = "LEFT"
    /\ gameStatus = "PLAYING"
    /\ ticks >= 1
    /\ snake[1].x = snake[2].x

\* C18: in every reachable state the snake has 3 + score / 10 cells and
\* the speed is max(50, 150 - 5 * (score / 10)).
C18_ScoreLengthSpeed ==
    /\ Len(snake) = 3 + score \div 10
    /\ score % 10 = 0
    /\ speed = (IF 150 - 5 * (score \div 10) > 50
                THEN 150 - 5 * (score \div 10) ELSE 50)

\* C18 witness: 21 cells eaten: 24 cells of snake, and the speed at 50
\* where 150 - 5 * 21 is 45.
C18_Witness ==
    /\ score = 210
    /\ Len(snake) = 24
    /\ speed = 50

\* C19: when from some point on no direction input is accepted, a game
\* that is PLAYING (its ticks keep firing) eventually is GAME_OVER.
C19_StraightRunEnds ==
    (<>[][event'.did # "accepted"]_vars) =>
        [](gameStatus = "PLAYING" => <>(gameStatus = "GAME_OVER"))

\* C19 witness: a snake left to run straight up from the start has ended
\* the game on the top wall.
C19_Witness ==
    /\ gameStatus = "GAME_OVER"
    /\ event.did = "wall"
    /\ direction = "UP"
    /\ snake[1] = [x |-> 10, y |-> 0]
    /\ turns = 0

TypeOK ==
    /\ snake \in Seq([x : Int, y : Int])
    /\ direction \in Directions
    /\ gameStatus \in Statuses
    /\ directionRef = direction
    /\ gameStatusRef = gameStatus

====
